---------------------------- MODULE Spec2Model ----------------------------
(***************************************************************************)
(* Vault<ElementData, COUNT>: a fixed-capacity slot pool (lock-free        *)
(* variant, LOCK_FREE = 1).  Every slot has a payload `data`, a mutex      *)
(* `access` and an atomic flag `inUse`.  Threads allocate slots, release   *)
(* them by index or by predicate, mutate payloads through an ElementView   *)
(* that owns the slot's mutex, and iterate over the occupied slots.        *)
(*                                                                         *)
(* Every atomic load, compare-exchange and mutex acquisition of the code   *)
(* is one step of the model; a View's destructor (the unlock) is merged    *)
(* into the step that ends the View's scope.                               *)
(***************************************************************************)
EXTENDS Integers, Sequences, FiniteSets, TLC

VARIABLES
    inUse,      \* storage[i].inUse
    data,       \* storage[i].data  (Data {field_1, field_3})
    access,     \* storage[i].access is locked
    pc,         \* where each thread is
    iter,       \* each thread's scan position / index argument
    ref,        \* ElementView::ref of the View the thread holds (Null: none / empty)
    ret,        \* what the thread's last call returned or raised
    n,          \* each thread's loop counter (allocate() calls it has issued)
    calls,      \* history: calls issued by all threads
    tmp,        \* the value of field_1 a thread read for its increment
    seen,       \* what an iterating thread has visited: <<index, payload>> ...
    claims,     \* history: successful allocate() calls per slot
    frees,      \* history: deallocate calls that returned true, per slot
    fails,      \* history: allocate() calls that returned success = false
    incs,       \* history: increments completed through a View
    start,      \* history: occupancy and payload in the initial state
    during      \* history: what happened during each thread's allocate() call

vars == <<inUse, data, access, pc, iter, ref, ret, n, calls, tmp, seen,
          claims, frees, fails, incs, start, during>>

---------------------------------------------------------------------------
(* Bounds *)

COUNT == 4

NumThreads == 2

MaxCalls == 2

MaxIncs == 3

Slots == 0 .. (COUNT - 1)

End == COUNT

Threads == 1 .. NumThreads

Null == -1

---------------------------------------------------------------------------
(* Payloads.  field_3 is a string, modelled as a sequence of characters.  *)

DigitChar == <<"0", "1", "2", "3", "4", "5", "6", "7", "8", "9">>

RECURSIVE Dec(_)
Dec(k) == IF k < 10 THEN <<DigitChar[k + 1]>>
          ELSE Dec(k \div 10) \o <<DigitChar[(k % 10) + 1]>>

Fmt(i, k) == Dec(i) \o <<"_">> \o Dec(k)

Additional == <<"a", "d", "d", "i", "t", "i", "o", "n", "a", "l", " ">>

FmtAdditional(i, k) == Additional \o Fmt(i, k)

StartsWithPrefix(s, p) == Len(s) >= Len(p) /\ SubSeq(s, 1, Len(p)) = p

starts_with(s, p) == StartsWithPrefix(s, p)

DefaultData == [field_1 |-> 0, field_3 |-> <<>>]

PrefixTwo == <<"2", "_">>

PrefixAdd == <<"a", "d", "d">>

prefix_pred(d) == starts_with(d.field_3, PrefixTwo)

---------------------------------------------------------------------------
(* Helpers on the state *)

Occupied == {i \in Slots : inUse[i]}

RECURSIVE SumOver(_, _)
SumOver(f, S) == IF S = {} THEN 0
                 ELSE LET x == CHOOSE y \in S : TRUE
                      IN  f[x] + SumOver(f, S \ {x})

Idle(t) == pc[t] = "idle"

(* The record kept for a thread's allocate() call, from its invocation     *)
(* until the View it returned is destroyed: whether every slot was         *)
(* occupied at some instant of the call, whether a deallocate call freed   *)
(* a slot during it, how often its scan restarted, and how many            *)
(* allocate() calls of other threads succeeded during it.                  *)
NoCall == [full |-> FALSE, freed |-> FALSE, restarts |-> 0, others |-> 0]

InAllocate(t) == pc[t] \in {"alloc_scan", "alloc_lock", "alloc_cas"}

(* Thread t's allocate() has claimed a slot and left the occupancy u.  *)
AfterClaim(t, u) ==
    [x \in DOMAIN during |->
        IF x # t /\ InAllocate(x)
        THEN [during[x] EXCEPT !.full = @ \/ (\A i \in Slots : u[i]),
                               !.others = @ + 1]
        ELSE during[x]]

(* A deallocate call has freed a slot.  *)
AfterFree ==
    [x \in DOMAIN during |->
        IF InAllocate(x) THEN [during[x] EXCEPT !.freed = TRUE] ELSE during[x]]

Quiet == \A t \in Threads : pc[t] = "idle"

ThreadInit ==
    /\ access = [i \in Slots |-> FALSE]
    /\ pc = [t \in Threads |-> "idle"]
    /\ iter = [t \in Threads |-> 0]
    /\ ref = [t \in Threads |-> Null]
    /\ ret = [t \in Threads |-> "none"]
    /\ n = [t \in Threads |-> 0]
    /\ calls = 0
    /\ tmp = [t \in Threads |-> 0]
    /\ seen = [t \in Threads |-> <<>>]
    /\ claims = [i \in Slots |-> 0]
    /\ frees = [i \in Slots |-> 0]
    /\ fails = 0
    /\ incs = 0
    /\ start = [inUse |-> inUse, data |-> data]
    /\ during = [t \in Threads |-> NoCall]

(* The pool after construction: every slot free, payloads default.  *)
Init ==
    /\ inUse = [i \in Slots |-> FALSE]
    /\ data = [i \in Slots |-> DefaultData]
    /\ ThreadInit

---------------------------------------------------------------------------
(* ElementView *)

(* A View that does not wait for the mutex.  *)
CanLockAlways(i) == TRUE

(* ElementView(Element& e): lock {e.access}, ref {&e}.  Blocks while the   *)
(* mutex is held.                                                          *)
CanLock(i) == ~access[i]

(* A View whose destruction leaves the mutex locked.  *)
KeepLocked(r) == access

(* ~ElementView: unique_lock releases the mutex it owns, if any.  *)
Unlocked(r) == IF r = Null THEN access ELSE [access EXCEPT ![r] = FALSE]

(* operator bool: ref && ref->inUse  *)
Live(t) == ref[t] # Null /\ inUse[ref[t]]

---------------------------------------------------------------------------
(* allocate() *)

AllocateCall(t) ==
    /\ pc[t] = "idle"
    /\ pc' = [pc EXCEPT ![t] = "alloc_scan"]
    /\ iter' = [iter EXCEPT ![t] = 0]
    /\ ret' = [ret EXCEPT ![t] = "none"]
    /\ n' = [n EXCEPT ![t] = @ + 1]
    /\ calls' = calls + 1
    /\ during' = [during EXCEPT ![t] =
                     [NoCall EXCEPT !.full = \A i \in Slots : inUse[i]]]
    /\ UNCHANGED <<inUse, data, access, ref, tmp, seen, claims, frees, fails, incs, start>>

(* A scan that gives up one slot before storage.end().  *)
ScanAtEndEarly(i) == i + 2 >= End

(* The slot just tested was the last one: first == storage.end().  *)
ScanAtEnd(i) == i + 1 = End

(* A scan that steps over the slot after an occupied one.  *)
ScanNextSkips(i) == IF i + 2 < End THEN i + 2 ELSE i + 1

(* find_if_not advances to the next element: ++first.  *)
ScanNext(i) == i + 1

(* find_if_not(storage, &Element::inUse): one atomic load per step; at the *)
(* end of storage allocate() returns (ElementView {}, false).              *)
AllocScan(t) ==
    /\ pc[t] = "alloc_scan"
    /\ IF ~inUse[iter[t]]
       THEN /\ pc' = [pc EXCEPT ![t] = "alloc_lock"]
            /\ UNCHANGED <<iter, ret, fails>>
       ELSE IF ScanAtEnd(iter[t])
       THEN /\ pc' = [pc EXCEPT ![t] = "holding"]
            /\ ret' = [ret EXCEPT ![t] = "false"]
            /\ iter' = [iter EXCEPT ![t] = End]
            /\ fails' = fails + 1
       ELSE /\ iter' = [iter EXCEPT ![t] = ScanNext(@)]
            /\ UNCHANGED <<pc, ret, fails>>
    /\ UNCHANGED <<inUse, data, access, ref, n, calls, tmp, seen, claims, frees, incs, start, during>>

(* ElementView v {*i.iter};  *)
AllocLock(t) ==
    /\ pc[t] = "alloc_lock"
    /\ CanLock(iter[t])
    /\ access' = [access EXCEPT ![iter[t]] = TRUE]
    /\ ref' = [ref EXCEPT ![t] = iter[t]]
    /\ pc' = [pc EXCEPT ![t] = "alloc_cas"]
    /\ UNCHANGED <<inUse, data, iter, ret, n, calls, tmp, seen, claims, frees, fails, incs, start, during>>

(* A compare-exchange whose expected value is true instead of false: it    *)
(* fails on a free slot.                                                   *)
AllocCasWrongExpected(i) == inUse[i]

(* A plain store in place of the compare-exchange.  *)
AllocCasBlind(i) == TRUE

(* compare_exchange_strong(exp = false, true): the test the CAS makes.  *)
AllocCasWins(i) == ~inUse[i]

(* if ( i.iter->inUse.compare_exchange_strong(exp, true) ) return {v, true}; *)
(* otherwise v is destroyed and the loop starts over from storage.begin(). *)
AllocCas(t) ==
    /\ pc[t] = "alloc_cas"
    /\ IF AllocCasWins(ref[t])
       THEN /\ inUse' = [inUse EXCEPT ![ref[t]] = TRUE]
            /\ claims' = [claims EXCEPT ![ref[t]] = @ + 1]
            /\ pc' = [pc EXCEPT ![t] = "holding"]
            /\ ret' = [ret EXCEPT ![t] = "true"]
            /\ during' = AfterClaim(t, inUse')
            /\ UNCHANGED <<access, ref, iter>>
       ELSE /\ access' = Unlocked(ref[t])
            /\ ref' = [ref EXCEPT ![t] = Null]
            /\ iter' = [iter EXCEPT ![t] = 0]
            /\ pc' = [pc EXCEPT ![t] = "alloc_scan"]
            /\ during' = [during EXCEPT ![t].restarts = @ + 1]
            /\ UNCHANGED <<inUse, claims, ret>>
    /\ UNCHANGED <<data, n, calls, tmp, seen, frees, fails, incs, start>>

---------------------------------------------------------------------------
(* What a caller does with the View it got *)

(* ElementView::operator(): if ( !ref->inUse ) throw std::out_of_range;    *)
(* on a View with ref == nullptr the test dereferences a null pointer.     *)
DerefOutcomes(t) ==
    IF ref[t] = Null THEN {"EmptyAccess", "crash", "wild"}
    ELSE IF inUse[ref[t]] THEN {"ok"}
    ELSE {"EmptyAccess"}

(* view( ).field_3.assign(fmt::format("{}_{}", i + 1, n + 1));             *)
(* view( ).field_1 = 0;                                                    *)
(* A std::out_of_range leaves the scope of the View (its lock is          *)
(* released); after a null dereference the thread does not go on.          *)
WriteThrough(t, name) ==
    /\ pc[t] = "holding"
    /\ \E o \in DerefOutcomes(t) :
          /\ ret' = [ret EXCEPT ![t] = IF o = "ok" THEN @ ELSE o]
          /\ data' = IF o = "ok"
                     THEN [data EXCEPT ![ref[t]] = [field_1 |-> 0, field_3 |-> name]]
                     ELSE data
          /\ pc' = [pc EXCEPT ![t] = CASE o = "ok" -> "holding"
                                       [] o = "EmptyAccess" -> "idle"
                                       [] OTHER -> "aborted"]
          /\ access' = IF o = "EmptyAccess" THEN Unlocked(ref[t]) ELSE access
          /\ ref' = IF o = "EmptyAccess" THEN [ref EXCEPT ![t] = Null] ELSE ref
          /\ during' = IF o = "EmptyAccess" THEN [during EXCEPT ![t] = NoCall] ELSE during
    /\ UNCHANGED <<inUse, iter, n, calls, tmp, seen, claims, frees, fails, incs, start>>

(* The View goes out of scope.  *)
ViewDestroy(t) ==
    /\ pc[t] = "holding"
    /\ access' = Unlocked(ref[t])
    /\ ref' = [ref EXCEPT ![t] = Null]
    /\ pc' = [pc EXCEPT ![t] = "idle"]
    /\ during' = [during EXCEPT ![t] = NoCall]
    /\ UNCHANGED <<inUse, data, iter, ret, n, calls, tmp, seen, claims, frees, fails, incs, start>>

---------------------------------------------------------------------------
(* deallocate(size_t idx) *)

(* A bounds check that lets idx == COUNT through.  *)
InRangeOffByOne(idx) == idx <= COUNT

(* storage.at(idx) throws std::out_of_range for idx >= COUNT, before the   *)
(* View (and its lock) is constructed.                                     *)
InRange(idx) == idx < COUNT

DeallocateCall(t, idx) ==
    /\ pc[t] = "idle"
    /\ calls' = calls + 1
    /\ IF InRange(idx)
       THEN /\ pc' = [pc EXCEPT ![t] = "dealloc_lock"]
            /\ iter' = [iter EXCEPT ![t] = idx]
            /\ ret' = [ret EXCEPT ![t] = "none"]
       ELSE /\ ret' = [ret EXCEPT ![t] = "OutOfRange"]
            /\ iter' = [iter EXCEPT ![t] = idx]
            /\ UNCHANGED pc
    /\ UNCHANGED <<inUse, n, data, access, ref, tmp, seen, claims, frees, fails, incs, start, during>>

(* ElementView e {storage.at(idx)};  *)
DeallocLock(t) ==
    /\ pc[t] = "dealloc_lock"
    /\ CanLock(iter[t])
    /\ access' = [access EXCEPT ![iter[t]] = TRUE]
    /\ ref' = [ref EXCEPT ![t] = iter[t]]
    /\ pc' = [pc EXCEPT ![t] = "dealloc_cas"]
    /\ UNCHANGED <<inUse, data, iter, ret, n, calls, tmp, seen, claims, frees, fails, incs, start, during>>

(* A plain store of false that reports success.  *)
FreeCasBlind(i) == TRUE

(* compare_exchange_strong(exp = true, false): the test the CAS makes.  *)
FreeCasWins(i) == inUse[i]

(* return e.ref->inUse.compare_exchange_strong(exp, false);  then ~e.  *)
DeallocCas(t) ==
    /\ pc[t] = "dealloc_cas"
    /\ IF FreeCasWins(ref[t])
       THEN /\ inUse' = [inUse EXCEPT ![ref[t]] = FALSE]
            /\ frees' = [frees EXCEPT ![ref[t]] = @ + 1]
            /\ ret' = [ret EXCEPT ![t] = "true"]
            /\ during' = AfterFree
       ELSE /\ ret' = [ret EXCEPT ![t] = "false"]
            /\ UNCHANGED <<inUse, frees, during>>
    /\ access' = Unlocked(ref[t])
    /\ ref' = [ref EXCEPT ![t] = Null]
    /\ pc' = [pc EXCEPT ![t] = "idle"]
    /\ UNCHANGED <<data, iter, n, calls, tmp, seen, claims, fails, incs, start>>

---------------------------------------------------------------------------
(* deallocate(const std::function<bool(const ElementData&)>& pred) *)

DeallocPredCall(t) ==
    /\ pc[t] = "idle"
    /\ calls' = calls + 1
    /\ pc' = [pc EXCEPT ![t] = "pred_lock"]
    /\ iter' = [iter EXCEPT ![t] = 0]
    /\ ret' = [ret EXCEPT ![t] = "none"]
    /\ UNCHANGED <<inUse, n, data, access, ref, tmp, seen, claims, frees, fails, incs, start, during>>

(* for ( auto& e: storage ) { ElementView v {e};  *)
PredLock(t) ==
    /\ pc[t] = "pred_lock"
    /\ CanLock(iter[t])
    /\ access' = [access EXCEPT ![iter[t]] = TRUE]
    /\ ref' = [ref EXCEPT ![t] = iter[t]]
    /\ pc' = [pc EXCEPT ![t] = "pred_eval"]
    /\ UNCHANGED <<inUse, data, iter, ret, n, calls, tmp, seen, claims, frees, fails, incs, start, during>>

(* A scan that carries the lock of the slot it leaves into the next        *)
(* iteration.                                                              *)
PredAdvanceKeepsLock(t) ==
    /\ access' = access
    /\ ref' = [ref EXCEPT ![t] = Null]
    /\ IF iter[t] + 1 = End
       THEN /\ pc' = [pc EXCEPT ![t] = "idle"]
            /\ ret' = [ret EXCEPT ![t] = "false"]
            /\ iter' = [iter EXCEPT ![t] = End]
       ELSE /\ pc' = [pc EXCEPT ![t] = "pred_lock"]
            /\ iter' = [iter EXCEPT ![t] = @ + 1]
            /\ UNCHANGED ret

(* The end of one iteration of the range-for: v is destroyed, and after    *)
(* the last element the function returns false.                            *)
PredAdvance(t) ==
    /\ access' = Unlocked(ref[t])
    /\ ref' = [ref EXCEPT ![t] = Null]
    /\ IF iter[t] + 1 = End
       THEN /\ pc' = [pc EXCEPT ![t] = "idle"]
            /\ ret' = [ret EXCEPT ![t] = "false"]
            /\ iter' = [iter EXCEPT ![t] = End]
       ELSE /\ pc' = [pc EXCEPT ![t] = "pred_lock"]
            /\ iter' = [iter EXCEPT ![t] = @ + 1]
            /\ UNCHANGED ret

(* if ( v && pred(v( )) )  *)
PredMatches(t) == Live(t) /\ prefix_pred(data[ref[t]])

PredEval(t) ==
    /\ pc[t] = "pred_eval"
    /\ IF PredMatches(t)
       THEN /\ pc' = [pc EXCEPT ![t] = "pred_cas"]
            /\ UNCHANGED <<access, ref, iter, ret>>
       ELSE PredAdvance(t)
    /\ UNCHANGED <<inUse, data, n, calls, tmp, seen, claims, frees, fails, incs, start, during>>

(* compare_exchange_weak may fail although the flag holds the expected     *)
(* value ([atomics.types.operations]: "may fail spuriously").              *)
WeakCasSpurious == {FALSE, TRUE}

(* if ( e.inUse.compare_exchange_weak(exp = true, false) ) return true;  *)
PredCas(t) ==
    /\ pc[t] = "pred_cas"
    /\ \E spurious \in WeakCasSpurious :
          IF FreeCasWins(ref[t]) /\ ~spurious
          THEN /\ inUse' = [inUse EXCEPT ![ref[t]] = FALSE]
               /\ frees' = [frees EXCEPT ![ref[t]] = @ + 1]
               /\ ret' = [ret EXCEPT ![t] = "true"]
               /\ access' = Unlocked(ref[t])
               /\ ref' = [ref EXCEPT ![t] = Null]
               /\ pc' = [pc EXCEPT ![t] = "idle"]
               /\ during' = AfterFree
               /\ UNCHANGED iter
          ELSE /\ PredAdvance(t)
               /\ UNCHANGED <<inUse, frees, during>>
    /\ UNCHANGED <<data, n, calls, tmp, seen, claims, fails, incs, start>>

---------------------------------------------------------------------------
(* view(size_t idx) *)

ViewCall(t, idx) ==
    /\ pc[t] = "idle"
    /\ calls' = calls + 1
    /\ IF InRange(idx)
       THEN /\ pc' = [pc EXCEPT ![t] = "view_lock"]
            /\ iter' = [iter EXCEPT ![t] = idx]
            /\ ret' = [ret EXCEPT ![t] = "none"]
       ELSE /\ ret' = [ret EXCEPT ![t] = "OutOfRange"]
            /\ iter' = [iter EXCEPT ![t] = idx]
            /\ UNCHANGED pc
    /\ UNCHANGED <<inUse, n, data, access, ref, tmp, seen, claims, frees, fails, incs, start, during>>

(* return ElementView {storage.at(idx)};  *)
ViewLock(t) ==
    /\ pc[t] = "view_lock"
    /\ CanLock(iter[t])
    /\ access' = [access EXCEPT ![iter[t]] = TRUE]
    /\ ref' = [ref EXCEPT ![t] = iter[t]]
    /\ pc' = [pc EXCEPT ![t] = "holding"]
    /\ ret' = [ret EXCEPT ![t] = "view"]
    /\ UNCHANGED <<inUse, data, iter, n, calls, tmp, seen, claims, frees, fails, incs, start, during>>

(* if ( view ) { view( ).field_1++;  -- the load of field_1  *)
IncRead(t) ==
    /\ pc[t] = "holding"
    /\ ret[t] = "view"
    /\ Live(t)
    /\ tmp' = [tmp EXCEPT ![t] = data[ref[t]].field_1]
    /\ pc' = [pc EXCEPT ![t] = "inc_write"]
    /\ UNCHANGED <<inUse, data, access, iter, ref, ret, n, calls, seen, claims, frees, fails, incs, start, during>>

(* -- the store of field_1 + 1, then                                       *)
(* view( ).field_3.assign(fmt::format("{}_{}", view( ).field_3, i + 1)); } *)
IncWrite(t) ==
    /\ pc[t] = "inc_write"
    /\ data' = [data EXCEPT ![ref[t]] =
                   [field_1 |-> tmp[t] + 1,
                    field_3 |-> @.field_3 \o <<"_">> \o Dec(t)]]
    /\ incs' = incs + 1
    /\ tmp' = [tmp EXCEPT ![t] = 0]
    /\ ret' = [ret EXCEPT ![t] = "modified"]
    /\ pc' = [pc EXCEPT ![t] = "holding"]
    /\ UNCHANGED <<inUse, access, iter, ref, n, calls, seen, claims, frees, fails, start, during>>

---------------------------------------------------------------------------
(* iterator, begin(), end() *)

(* The find_if of begin() (from storage.begin()) and of operator++ (from   *)
(* iter + 1): one atomic load of inUse per step, up to storage.end().      *)
IterFound(i) == inUse[i]

(* operator++ that scans on from iter instead of iter + 1.  *)
IterNextSame(i) == i

IterNext(i) == i + 1

IterBegin(t) ==
    /\ pc[t] = "idle"
    /\ calls' = calls + 1
    /\ pc' = [pc EXCEPT ![t] = "it_scan"]
    /\ iter' = [iter EXCEPT ![t] = 0]
    /\ seen' = [seen EXCEPT ![t] = <<>>]
    /\ ret' = [ret EXCEPT ![t] = "none"]
    /\ UNCHANGED <<inUse, n, data, access, ref, tmp, claims, frees, fails, incs, start, during>>

IterScan(t) ==
    /\ pc[t] = "it_scan"
    /\ IF iter[t] = End
       THEN /\ pc' = [pc EXCEPT ![t] = "idle"]
            /\ ret' = [ret EXCEPT ![t] = "end"]
            /\ UNCHANGED iter
       ELSE IF IterFound(iter[t])
       THEN /\ pc' = [pc EXCEPT ![t] = "it_lock"]
            /\ UNCHANGED <<iter, ret>>
       ELSE /\ iter' = [iter EXCEPT ![t] = @ + 1]
            /\ UNCHANGED <<pc, ret>>
    /\ UNCHANGED <<inUse, data, access, ref, n, calls, tmp, seen, claims, frees, fails, incs, start, during>>

(* value_type operator* ( ) { return ElementView {*iter}; }  *)
IterLock(t) ==
    /\ pc[t] = "it_lock"
    /\ CanLock(iter[t])
    /\ access' = [access EXCEPT ![iter[t]] = TRUE]
    /\ ref' = [ref EXCEPT ![t] = iter[t]]
    /\ pc' = [pc EXCEPT ![t] = "it_view"]
    /\ UNCHANGED <<inUse, data, iter, ret, n, calls, tmp, seen, claims, frees, fails, incs, start, during>>

(* The loop body reads the payload through the View (d( )), the View is    *)
(* destroyed, and ++first scans on from iter + 1.                          *)
IterVisit(t) ==
    /\ pc[t] = "it_view"
    /\ IF inUse[ref[t]]
       THEN /\ seen' = [seen EXCEPT ![t] = Append(@, <<ref[t], data[ref[t]]>>)]
            /\ iter' = [iter EXCEPT ![t] = IterNext(@)]
            /\ pc' = [pc EXCEPT ![t] = "it_scan"]
            /\ UNCHANGED ret
       ELSE /\ ret' = [ret EXCEPT ![t] = "EmptyAccess"]
            /\ pc' = [pc EXCEPT ![t] = "idle"]
            /\ UNCHANGED <<seen, iter>>
    /\ access' = Unlocked(ref[t])
    /\ ref' = [ref EXCEPT ![t] = Null]
    /\ UNCHANGED <<inUse, data, n, calls, tmp, claims, frees, fails, incs, start, during>>

---------------------------------------------------------------------------
(* TEST(mt_vault, allocation): every thread calls allocate()               *)
(* maxElementNumber / threadsCount times and fills the slot it got.        *)

PerThread == COUNT \div NumThreads

FillCall(t) ==
    /\ n[t] < PerThread
    /\ AllocateCall(t)

FillWrite(t) ==
    /\ pc[t] = "holding"
    /\ ret[t] = "true"
    /\ WriteThrough(t, Fmt(t, n[t]))

FillDestroy(t) ==
    /\ pc[t] = "holding"
    /\ ret[t] = "true" => data[ref[t]] = [field_1 |-> 0, field_3 |-> Fmt(t, n[t])]
    /\ ViewDestroy(t)

NextFill ==
    \E t \in Threads :
        \/ FillCall(t)
        \/ AllocScan(t)
        \/ AllocLock(t)
        \/ AllocCas(t)
        \/ FillWrite(t)
        \/ FillDestroy(t)

SpecFill == Init /\ [][NextFill]_vars

FillDone == \A t \in Threads : pc[t] = "idle" /\ n[t] = PerThread

(* C1: T threads call allocate() K times each on an empty pool that holds  *)
(* at least T*K slots, with no deallocation.  In every interleaving every  *)
(* call returns success = true with a View bound to a slot, no slot is     *)
(* claimed by two calls, and when all threads are done exactly T*K slots   *)
(* are occupied (all of them when the capacity is T*K).                    *)
C1_ConcurrentAllocation ==
    /\ fails = 0
    /\ \A t \in Threads : pc[t] = "holding" => ret[t] = "true" /\ Live(t)
    /\ \A i \in Slots : claims[i] <= 1
    /\ \A t, u \in Threads : t # u /\ pc[t] = "holding" /\ pc[u] = "holding"
                                => ref[t] # ref[u]
    /\ FillDone => /\ SumOver(claims, Slots) = NumThreads * PerThread
                   /\ Cardinality(Occupied) = NumThreads * PerThread
                   /\ (NumThreads * PerThread = COUNT => Occupied = Slots)

C1_Witness == FillDone /\ Occupied = Slots /\ NumThreads * PerThread = COUNT

---------------------------------------------------------------------------
(* A pool some earlier fill has left: full, or with one slot free; slot i  *)
(* carries what the fill thread i % T wrote in its round i / T.            *)

FilledData == [i \in Slots |->
                 [field_1 |-> 0,
                  field_3 |-> Fmt((i % NumThreads) + 1, (i \div NumThreads) + 1)]]

InitFilled ==
    /\ inUse \in {f \in [Slots -> BOOLEAN] : Cardinality({i \in Slots : ~f[i]}) <= 1}
    /\ data = FilledData
    /\ ThreadInit

StartOccupied == {i \in Slots : start.inUse[i]}

---------------------------------------------------------------------------
(* TEST(mt_vault, deallocation_by_index): the threads call deallocate(idx) *)
(* over the slots, several threads on the same index.                      *)

ReleaseCall(t) ==
    /\ calls < COUNT + 1
    /\ \E idx \in Slots : DeallocateCall(t, idx)

NextRelease ==
    \E t \in Threads :
        \/ ReleaseCall(t)
        \/ DeallocLock(t)
        \/ DeallocCas(t)

SpecRelease == InitFilled /\ [][NextRelease]_vars

Returned(t) == pc[t] = "idle" /\ ret[t] \in {"true", "false"}

(* C2: with no reallocation, the deallocate(i) calls on a slot return true *)
(* exactly once if the slot was occupied and never if it was free (a slot  *)
(* is occupied, or it is free and one call has returned true for it); a    *)
(* call that has returned leaves its slot free; no payload changes; so     *)
(* when the pool is empty the number of true results is the number of      *)
(* slots that were occupied.                                               *)
C2_ReleaseExactlyOnce ==
    /\ \A i \in Slots :
          frees[i] + (IF inUse[i] THEN 1 ELSE 0) = (IF start.inUse[i] THEN 1 ELSE 0)
    /\ \A t \in Threads : Returned(t) => ~inUse[iter[t]]
    /\ data = start.data
    /\ Occupied = {} => SumOver(frees, Slots) = Cardinality(StartOccupied)

C2_Witness ==
    /\ Quiet
    /\ StartOccupied = Slots
    /\ Occupied = {}
    /\ \E t, u \in Threads :
          /\ iter[t] = iter[u]
          /\ ret[t] = "true"
          /\ ret[u] = "false"

---------------------------------------------------------------------------
(* TEST(mt_vault, deallocation_by_predicate): every thread repeats         *)
(* deallocate(prefix_pred) until it returns false.                         *)

DrainNames == {Fmt(1, 1), Fmt(2, 1), Fmt(12, 1)}

InitDrain ==
    /\ inUse \in [Slots -> BOOLEAN]
    /\ data \in [Slots -> {[field_1 |-> 0, field_3 |-> nm] : nm \in DrainNames}]
    /\ ThreadInit

DrainCall(t) ==
    /\ ret[t] # "false"
    /\ DeallocPredCall(t)

NextDrain ==
    \E t \in Threads :
        \/ DrainCall(t)
        \/ PredLock(t)
        \/ PredEval(t)
        \/ PredCas(t)

SpecDrain == InitDrain /\ [][NextDrain]_vars

DrainDone == \A t \in Threads : pc[t] = "idle" /\ ret[t] = "false"

StartMatching == {i \in Slots : start.inUse[i] /\ prefix_pred(start.data[i])}

(* C3: when every thread has repeated deallocate(P) until it returned      *)
(* false, the calls that returned true are as many as the occupied slots   *)
(* that satisfied P, no occupied slot satisfies P, and every other slot    *)
(* that was occupied still is.                                             *)
C3_DrainFreesEveryMatch ==
    DrainDone =>
        /\ SumOver(frees, Slots) = Cardinality(StartMatching)
        /\ \A i \in Occupied : ~prefix_pred(data[i])
        /\ \A i \in StartOccupied \ StartMatching : inUse[i]

---------------------------------------------------------------------------
(* TEST(mt_vault, modification): the threads take view(idx) of a slot,     *)
(* MaxIncs times in all, and increment field_1 if the View is live.        *)

ModifyCall(t) ==
    /\ calls < MaxIncs
    /\ \E idx \in Slots : ViewCall(t, idx)

ModifyDestroy(t) ==
    /\ pc[t] = "holding"
    /\ ret[t] = "modified" \/ ~Live(t)
    /\ ViewDestroy(t)

NextModify ==
    \E t \in Threads :
        \/ ModifyCall(t)
        \/ ViewLock(t)
        \/ IncRead(t)
        \/ IncWrite(t)
        \/ ModifyDestroy(t)

SpecModify == InitFilled /\ [][NextModify]_vars

Counter == [i \in Slots |-> data[i].field_1]

HoldsView(t) == ref[t] # Null

(* C4: no two Views hold the same slot, a slot's mutex is locked exactly   *)
(* while a View is bound to it, and the counters of all slots add up to    *)
(* the number of increments completed through Views of occupied slots.     *)
C4_NoLostUpdate ==
    /\ \A t, u \in Threads : t # u /\ HoldsView(t) => ref[t] # ref[u]
    /\ \A i \in Slots : access[i] <=> (\E t \in Threads : ref[t] = i)
    /\ SumOver(Counter, Slots) = incs
    /\ \A i \in Slots : ~inUse[i] => Counter[i] = 0

C4_Witness ==
    /\ Quiet
    /\ incs = MaxIncs
    /\ \E i \in Slots : Counter[i] >= 2 /\ Len(data[i].field_3) > Len(start.data[i].field_3) + 2


---------------------------------------------------------------------------
(* One thread using the pool: any sequence of allocate(), writes through   *)
(* the View, deallocate(idx), deallocate(prefix_pred), view(idx) and       *)
(* traversals from begin() to end(), on a freshly constructed pool.  The   *)
(* index arguments include COUNT, which is out of range, and the caller    *)
(* may dereference whatever View it holds.                                 *)

Main == 1

MaxSeqCalls == COUNT + 3

SeqNames == {Fmt(1, 1), Fmt(2, 1)}

Indexes == 0 .. COUNT

SeqAllocate(t) ==
    /\ calls < MaxSeqCalls
    /\ AllocateCall(t)

SeqWrite(t) == \E nm \in SeqNames : WriteThrough(t, nm)

SeqDeallocate(t) ==
    /\ calls < MaxSeqCalls
    /\ \E idx \in Indexes : DeallocateCall(t, idx)

SeqDeallocPred(t) ==
    /\ calls < MaxSeqCalls
    /\ DeallocPredCall(t)

SeqView(t) ==
    /\ calls < MaxSeqCalls
    /\ \E idx \in Indexes : ViewCall(t, idx)

SeqIterate(t) ==
    /\ calls < MaxSeqCalls
    /\ IterBegin(t)

NextSeq ==
    \/ SeqAllocate(Main)
    \/ AllocScan(Main)
    \/ AllocLock(Main)
    \/ AllocCas(Main)
    \/ SeqWrite(Main)
    \/ ViewDestroy(Main)
    \/ SeqDeallocate(Main)
    \/ DeallocLock(Main)
    \/ DeallocCas(Main)
    \/ SeqDeallocPred(Main)
    \/ PredLock(Main)
    \/ PredEval(Main)
    \/ PredCas(Main)
    \/ SeqView(Main)
    \/ ViewLock(Main)
    \/ SeqIterate(Main)
    \/ IterScan(Main)
    \/ IterLock(Main)
    \/ IterVisit(Main)

SpecSeq == Init /\ [][NextSeq]_vars

(* C5: a failed allocate() returns a View bound to no slot, and           *)
(* dereferencing that View raises EmptyAccess: a dereference never ends    *)
(* in an access through the null slot reference.                           *)
C5_EmptyViewRaisesEmptyAccess ==
    /\ \A t \in Threads : pc[t] = "holding" /\ ret[t] = "false" => ref[t] = Null
    /\ \A t \in Threads : pc[t] # "aborted" /\ ret[t] \notin {"crash", "wild"}

AllocFailedNow(t) == pc[t] = "holding" /\ ret[t] = "false"

C6_State ==
    /\ AllocFailedNow(Main) =>
          /\ Occupied = Slots
          /\ ref[Main] = Null
          /\ \A i \in Slots : ~access[i]
    /\ SumOver(frees, Slots) = 0 =>
          /\ SumOver(claims, Slots) <= COUNT
          /\ fails > 0 => SumOver(claims, Slots) = COUNT
    /\ pc[Main] = "holding" /\ ret[Main] = "true" => Live(Main)

C6_Step ==
    (pc[Main] = "alloc_scan" \/ (pc[Main] = "idle" /\ pc'[Main] = "alloc_scan"))
        => UNCHANGED <<inUse, data, access>>

(* C6: used by one thread, allocate() fails only on a full pool, and then  *)
(* returns an empty View with no mutex locked; with no deallocation the    *)
(* first COUNT calls succeed and every later one fails; the steps of a     *)
(* failing call change no occupancy, payload or mutex; and a successful    *)
(* call (also one made after a failure and a release) returns a live View. *)
C6_ExhaustionIsClean == []C6_State /\ [][C6_Step]_vars

C6_Witness ==
    /\ fails > 0
    /\ SumOver(frees, Slots) > 0
    /\ pc[Main] = "holding"
    /\ ret[Main] = "true"
    /\ SumOver(claims, Slots) = COUNT + 1

(* The occupied slots below index k in ascending order, each with its     *)
(* payload.                                                                *)
RECURSIVE OccupiedBelow(_)
OccupiedBelow(k) ==
    IF k = 0 THEN <<>>
    ELSE OccupiedBelow(k - 1)
            \o (IF inUse[k - 1] THEN << <<k - 1, data[k - 1]>> >> ELSE <<>>)

(* C9: a traversal by the only thread has, at every position, visited      *)
(* exactly the occupied slots below that position, in ascending order,     *)
(* once each, with the payload the slot holds; at end() it has visited     *)
(* all occupied slots, and none when the pool is empty.                    *)
C9_TraversalYieldsOccupied ==
    /\ pc[Main] \in {"it_scan", "it_lock", "it_view"} =>
          /\ seen[Main] = OccupiedBelow(iter[Main])
          /\ pc[Main] = "it_view" => inUse[ref[Main]] /\ ref[Main] = iter[Main]
    /\ pc[Main] = "idle" /\ ret[Main] = "end" =>
          /\ seen[Main] = OccupiedBelow(End)
          /\ Len(seen[Main]) = Cardinality(Occupied)
          /\ Occupied = {} => seen[Main] = <<>>

C9_Witness ==
    /\ pc[Main] = "idle"
    /\ ret[Main] = "end"
    /\ Len(seen[Main]) >= 2
    /\ \E i, j \in Slots : i < j /\ ~inUse[i] /\ inUse[j]
    /\ \E k \in 1 .. Len(seen[Main]) : seen[Main][k][2].field_3 = Fmt(2, 1)

---------------------------------------------------------------------------
(* TEST(mt_vault, wild): threads that allocate and fill, release by index, *)
(* release by predicate, and modify through view(idx), all at once, on a   *)
(* pool earlier use has left full or with one free slot.  The index        *)
(* arguments are the first slot, the last slot and COUNT (out of range).   *)

Probes == {0, COUNT - 1, COUNT}

InitAny ==
    /\ inUse \in [Slots -> BOOLEAN]
    /\ data = FilledData
    /\ ThreadInit

WildAllocate(t) ==
    /\ calls < MaxCalls
    /\ AllocateCall(t)

WildWrite(t) ==
    /\ pc[t] = "holding"
    /\ ret[t] = "true"
    /\ WriteThrough(t, Fmt(t, n[t]))

WildDeallocate(t) ==
    /\ calls < MaxCalls
    /\ \E idx \in Probes : DeallocateCall(t, idx)

WildDeallocPred(t) ==
    /\ calls < MaxCalls
    /\ DeallocPredCall(t)

WildView(t) ==
    /\ calls < MaxCalls
    /\ \E idx \in Probes : ViewCall(t, idx)

Next ==
    \E t \in Threads :
        \/ WildAllocate(t)
        \/ AllocScan(t)
        \/ AllocLock(t)
        \/ AllocCas(t)
        \/ WildWrite(t)
        \/ ViewDestroy(t)
        \/ WildDeallocate(t)
        \/ DeallocLock(t)
        \/ DeallocCas(t)
        \/ WildDeallocPred(t)
        \/ PredLock(t)
        \/ PredEval(t)
        \/ PredCas(t)
        \/ WildView(t)
        \/ ViewLock(t)
        \/ IncRead(t)
        \/ IncWrite(t)

Spec == InitFilled /\ [][Next]_vars

(* C7: the number of occupied slots is the number the pool started with,   *)
(* plus the allocate() calls that succeeded, minus the deallocate calls    *)
(* (by index or by predicate) that returned true; it is never negative     *)
(* and never above the capacity.                                           *)
C7_OccupancyCount ==
    /\ Cardinality(Occupied)
          = Cardinality(StartOccupied) + SumOver(claims, Slots) - SumOver(frees, Slots)
    /\ Cardinality(StartOccupied) + SumOver(claims, Slots) - SumOver(frees, Slots) >= 0
    /\ Cardinality(StartOccupied) + SumOver(claims, Slots) - SumOver(frees, Slots) <= COUNT

C7_Witness ==
    /\ Quiet
    /\ Cardinality(Occupied) = Cardinality(StartOccupied)
    /\ \E i \in Slots : claims[i] >= 1 /\ frees[i] >= 1

C8_State ==
    \A t \in Threads :
        /\ ret[t] = "OutOfRange" => iter[t] >= COUNT /\ pc[t] = "idle" /\ ref[t] = Null
        /\ pc[t] \in {"dealloc_lock", "dealloc_cas", "view_lock"} => iter[t] \in Slots

Moved(t) == pc'[t] # pc[t] \/ ret'[t] # ret[t] \/ iter'[t] # iter[t]

C8_Step ==
    \A t \in Threads :
        pc[t] = "idle" /\ calls' # calls /\ Moved(t) /\ iter'[t] >= COUNT
            => /\ ret'[t] = "OutOfRange"
               /\ pc'[t] = "idle"
               /\ UNCHANGED <<inUse, data, access, ref>>

(* C8: deallocate(idx) and view(idx) with idx >= COUNT end with            *)
(* OutOfRange in the calling step itself, which locks no mutex, binds no   *)
(* View and changes no occupancy or payload; a call goes on to lock a      *)
(* slot only with an index below COUNT.                                    *)
C8_OutOfRangeRejected == []C8_State /\ [][C8_Step]_vars

C8_Witness ==
    \E t, u \in Threads :
        /\ t # u
        /\ ret[t] = "OutOfRange"
        /\ iter[t] = COUNT
        /\ ref[u] # Null
        /\ Occupied # {}

---------------------------------------------------------------------------
(* TEST(mt_vault, allocate_into_sparse): some slots of a filled pool have  *)
(* been freed; the threads then make as many allocate() calls as there     *)
(* are free slots and fill what they get with "additional i_n".            *)

StartFree == Slots \ StartOccupied

SparseCall(t) ==
    /\ calls < Cardinality(StartFree)
    /\ AllocateCall(t)

SparseWrite(t) ==
    /\ pc[t] = "holding"
    /\ ret[t] = "true"
    /\ WriteThrough(t, FmtAdditional(t, n[t]))

SparseDestroy(t) ==
    /\ pc[t] = "holding"
    /\ ret[t] = "true" => starts_with(data[ref[t]].field_3, PrefixAdd)
    /\ ViewDestroy(t)

NextSparse ==
    \E t \in Threads :
        \/ SparseCall(t)
        \/ AllocScan(t)
        \/ AllocLock(t)
        \/ AllocCas(t)
        \/ SparseWrite(t)
        \/ SparseDestroy(t)

SpecSparse == InitAny /\ [][NextSparse]_vars

SparseDone == Quiet /\ calls = Cardinality(StartFree)

(* C10: with D slots free and the others occupied, D concurrent allocate() *)
(* calls and no release: no call fails, each call claims a slot that was   *)
(* free and no slot is claimed twice, the slots that were occupied keep    *)
(* their occupancy and payload, and when the calls are done the pool is    *)
(* full and exactly the D freed slots carry the new payload.               *)
C10_RefillSparse ==
    /\ fails = 0
    /\ \A i \in Slots : claims[i] <= 1 /\ (claims[i] = 1 => i \in StartFree)
    /\ \A i \in StartOccupied : inUse[i] /\ data[i] = start.data[i]
    /\ SparseDone =>
          /\ Occupied = Slots
          /\ SumOver(claims, Slots) = Cardinality(StartFree)
          /\ \A i \in StartFree : claims[i] = 1 /\ starts_with(data[i].field_3, PrefixAdd)
          /\ Cardinality({i \in Slots : starts_with(data[i].field_3, PrefixAdd)})
                = Cardinality(StartFree)

C10_Witness ==
    /\ SparseDone
    /\ Cardinality(StartFree) >= 2
    /\ StartOccupied # {}
    /\ \A t \in Threads : n[t] >= 1
    /\ \E i \in StartFree : \E j \in StartOccupied : j < i

---------------------------------------------------------------------------
(* TEST(mt_vault, allocate_dealloacate): on a full pool the first half of  *)
(* the threads repeat deallocate(prefix_pred) until it returns false,      *)
(* while the other half call allocate() until it succeeds and fill the     *)
(* slot with "concurrent i_n", as many times in all as slots matched.      *)

Concurrent == <<"c", "o", "n", "c", "u", "r", "r", "e", "n", "t", " ">>

FmtConcurrent(i, k) == Concurrent \o Fmt(i, k)

PrefixConc == <<"c", "o", "n", "c">>

Drainers == {t \in Threads : 2 * t <= NumThreads}

Allocators == Threads \ Drainers

InitChurn ==
    /\ inUse = [i \in Slots |-> TRUE]
    /\ data = FilledData
    /\ ThreadInit

ChurnDrain(t) ==
    /\ t \in Drainers
    /\ ret[t] # "false"
    /\ DeallocPredCall(t)

(* do { if ( auto [view, inserted] = v->allocate( ); inserted ) {...break;} } *)
(* while ( true ): a thread starts a call while successes are still owed.  *)
ChurnAllocate(t) ==
    /\ t \in Allocators
    /\ fails < MaxCalls
    /\ SumOver(claims, Slots)
          + Cardinality({u \in Allocators : pc[u] # "idle" /\ ret[u] # "false"})
          < Cardinality(StartMatching)
    /\ AllocateCall(t)

ChurnWrite(t) ==
    /\ pc[t] = "holding"
    /\ ret[t] = "true"
    /\ WriteThrough(t, FmtConcurrent(t, n[t]))

ChurnDestroy(t) ==
    /\ pc[t] = "holding"
    /\ ret[t] = "true" => starts_with(data[ref[t]].field_3, PrefixConc)
    /\ ViewDestroy(t)

NextChurn ==
    \E t \in Threads :
        \/ ChurnDrain(t)
        \/ PredLock(t)
        \/ PredEval(t)
        \/ PredCas(t)
        \/ ChurnAllocate(t)
        \/ AllocScan(t)
        \/ AllocLock(t)
        \/ AllocCas(t)
        \/ ChurnWrite(t)
        \/ ChurnDestroy(t)

SpecChurn == InitChurn /\ [][NextChurn]_vars

DrainersDone == \A t \in Drainers : pc[t] = "idle" /\ ret[t] = "false"

ChurnDone ==
    /\ Quiet
    /\ DrainersDone
    /\ SumOver(claims, Slots) = Cardinality(StartMatching)

(* C11: with allocators refilling freed slots with a payload that does not *)
(* satisfy P, predicate release frees a slot at most once and only a slot  *)
(* that matched at the start; when the drainers have stopped they have     *)
(* had exactly M true results; and after M successful allocations the      *)
(* pool is full and exactly M slots carry the new payload.                 *)
C11_DrainUnderRefill ==
    /\ \A i \in Slots : frees[i] <= 1 /\ (frees[i] = 1 => i \in StartMatching)
    /\ DrainersDone => SumOver(frees, Slots) = Cardinality(StartMatching)
    /\ ChurnDone =>
          /\ Occupied = Slots
          /\ Cardinality({i \in Slots : starts_with(data[i].field_3, PrefixConc)})
                = Cardinality(StartMatching)

---------------------------------------------------------------------------
(* Threads that use every operation of the pool at once, traversals        *)
(* included, and dereference the View they hold without testing it         *)
(* first, on a pool that is full or has one free slot.                     *)

ViewsAllocate(t) ==
    /\ calls < MaxCalls
    /\ AllocateCall(t)

ViewsWrite(t) ==
    /\ ref[t] # Null
    /\ WriteThrough(t, Fmt(t, n[t]))

ViewsDeallocate(t) ==
    /\ calls < MaxCalls
    /\ \E idx \in Probes : DeallocateCall(t, idx)

ViewsDeallocPred(t) ==
    /\ calls < MaxCalls
    /\ DeallocPredCall(t)

ViewsView(t) ==
    /\ calls < MaxCalls
    /\ \E idx \in Probes : ViewCall(t, idx)

ViewsIterate(t) ==
    /\ calls < MaxCalls
    /\ IterBegin(t)

NextViews ==
    \E t \in Threads :
        \/ ViewsAllocate(t)
        \/ AllocScan(t)
        \/ AllocLock(t)
        \/ AllocCas(t)
        \/ ViewsWrite(t)
        \/ ViewDestroy(t)
        \/ ViewsDeallocate(t)
        \/ DeallocLock(t)
        \/ DeallocCas(t)
        \/ ViewsDeallocPred(t)
        \/ PredLock(t)
        \/ PredEval(t)
        \/ PredCas(t)
        \/ ViewsView(t)
        \/ ViewLock(t)
        \/ ViewsIterate(t)
        \/ IterScan(t)
        \/ IterLock(t)
        \/ IterVisit(t)

SpecViews == InitFilled /\ [][NextViews]_vars

Locked == {i \in Slots : access[i]}

Binders(i) == {t \in Threads : ref[t] = i}

(* C12: every locked mutex is the one lock of exactly one thread, so a     *)
(* thread holds at most one slot lock; a thread that is scanning or about  *)
(* to lock a slot (in allocate(), deallocate(idx), deallocate(pred) or a   *)
(* traversal) holds none: the predicate scan has released slot k when it   *)
(* goes for slot k + 1, and allocate() has released the slot it lost when  *)
(* it scans again.                                                         *)
C12_OneLockAtATime ==
    /\ \A i \in Locked : Cardinality(Binders(i)) = 1
    /\ Cardinality(Locked) <= Cardinality({t \in Threads : ref[t] # Null})
    /\ \A t \in Threads :
          pc[t] \in {"alloc_scan", "alloc_lock", "dealloc_lock", "pred_lock",
                     "it_scan", "it_lock"}
              => ref[t] = Null

C12_Witness ==
    \E t, u \in Threads :
        /\ pc[t] = "pred_lock"
        /\ iter[t] > 0
        /\ pc[u] = "holding"
        /\ ret[u] = "true"
        /\ ref[u] < iter[t]
        /\ Locked = {ref[u]}

(* C13: a slot's mutex is locked exactly while a View is bound to the      *)
(* slot.  A thread that is between pool calls, that got (View {}, false)   *)
(* from allocate(), that is scanning again after a lost CAS, or whose      *)
(* dereference raised EmptyAccess, holds no lock; a lock a thread holds    *)
(* after a call has returned belongs to the View of a successful           *)
(* allocate() or of view(idx).                                             *)
C13_LockForViewLifetime ==
    /\ \A i \in Slots : access[i] <=> Binders(i) # {}
    /\ \A t \in Threads :
          /\ pc[t] = "idle" => ref[t] = Null
          /\ pc[t] = "alloc_scan" => ref[t] = Null
          /\ pc[t] = "holding" /\ ret[t] = "false" => ref[t] = Null
          /\ ret[t] = "EmptyAccess" /\ pc[t] = "idle" => ref[t] = Null
          /\ pc[t] = "holding" /\ ref[t] # Null => ret[t] \in {"true", "view"}
    /\ (\A t \in Threads : pc[t] = "idle") => Locked = {}

C13_Witness ==
    \E t, u \in Threads :
        /\ ret[t] = "EmptyAccess"
        /\ pc[t] = "idle"
        /\ ~inUse[iter[t]]
        /\ ~access[iter[t]]
        /\ pc[u] = "holding"
        /\ ret[u] = "view"
        /\ Locked = {ref[u]}

---------------------------------------------------------------------------
(* The coarse-lock variant (LOCK_FREE = 0) of deallocate(pred).  The       *)
(* container mutex Vault::access is held by the thread that is between     *)
(* CoarseEnter and its return; inUse is a plain bool written only under    *)
(* that mutex.  view(idx) is the same in both variants.                    *)

CoarseHolders == {t \in Threads : pc[t] \in {"c_find", "c_lock", "c_check"}}

CoarsePredCall(t) ==
    /\ pc[t] = "idle"
    /\ calls < MaxIncs
    /\ calls' = calls + 1
    /\ pc' = [pc EXCEPT ![t] = "c_enter"]
    /\ iter' = [iter EXCEPT ![t] = 0]
    /\ ret' = [ret EXCEPT ![t] = "none"]
    /\ UNCHANGED <<inUse, n, data, access, ref, tmp, seen, claims, frees, fails, incs, start, during>>

(* std::unique_lock _1 {access};  *)
CoarseEnter(t) ==
    /\ pc[t] = "c_enter"
    /\ CoarseHolders = {}
    /\ pc' = [pc EXCEPT ![t] = "c_find"]
    /\ UNCHANGED <<inUse, data, access, iter, ref, ret, n, calls, tmp, seen, claims, frees, fails, incs, start, during>>

(* Another thread is in the middle of a write to slot i's payload.  *)
WriterAt(t, i) == \E u \in Threads \ {t} : pc[u] = "inc_write" /\ ref[u] = i

(* pred(e.data) read with no lock on the slot: a read that races with a    *)
(* write has no defined value.                                             *)
UnlockedPred(t, i) ==
    IF WriterAt(t, i) THEN BOOLEAN ELSE {prefix_pred(data[i])}

(* find_if(storage, [pred] (const Element& e) { return e.inUse &&          *)
(* pred(e.data); }): one element per step; at cend() the call returns      *)
(* false.                                                                  *)
CoarseFind(t) ==
    /\ pc[t] = "c_find"
    /\ \E p \in UnlockedPred(t, iter[t]) :
          IF inUse[iter[t]] /\ p
          THEN /\ pc' = [pc EXCEPT ![t] = "c_lock"]
               /\ UNCHANGED <<iter, ret>>
          ELSE IF iter[t] + 1 = End
          THEN /\ pc' = [pc EXCEPT ![t] = "idle"]
               /\ ret' = [ret EXCEPT ![t] = "false"]
               /\ iter' = [iter EXCEPT ![t] = End]
          ELSE /\ iter' = [iter EXCEPT ![t] = @ + 1]
               /\ UNCHANGED <<pc, ret>>
    /\ UNCHANGED <<inUse, data, access, ref, n, calls, tmp, seen, claims, frees, fails, incs, start, during>>

(* std::unique_lock _2 {iter->access};  *)
CoarseLock(t) ==
    /\ pc[t] = "c_lock"
    /\ CanLock(iter[t])
    /\ access' = [access EXCEPT ![iter[t]] = TRUE]
    /\ ref' = [ref EXCEPT ![t] = iter[t]]
    /\ pc' = [pc EXCEPT ![t] = "c_check"]
    /\ UNCHANGED <<inUse, data, iter, ret, n, calls, tmp, seen, claims, frees, fails, incs, start, during>>

(* if ( !pred(iter->data) ) continue;  (the loop runs find_if again)       *)
(* return std::exchange(iter->inUse, false);                               *)
CoarseCheck(t) ==
    /\ pc[t] = "c_check"
    /\ IF ~prefix_pred(data[ref[t]])
       THEN /\ pc' = [pc EXCEPT ![t] = "c_find"]
            /\ iter' = [iter EXCEPT ![t] = 0]
            /\ UNCHANGED <<inUse, frees, ret>>
       ELSE /\ inUse' = [inUse EXCEPT ![ref[t]] = FALSE]
            /\ frees' = [frees EXCEPT ![ref[t]] = IF inUse[ref[t]] THEN @ + 1 ELSE @]
            /\ ret' = [ret EXCEPT ![t] = IF inUse[ref[t]] THEN "true" ELSE "false"]
            /\ pc' = [pc EXCEPT ![t] = "idle"]
            /\ UNCHANGED iter
    /\ during' = IF inUse'[ref[t]] # inUse[ref[t]] THEN AfterFree ELSE during
    /\ access' = Unlocked(ref[t])
    /\ ref' = [ref EXCEPT ![t] = Null]
    /\ UNCHANGED <<data, n, calls, tmp, seen, claims, fails, incs, start>>

NextCoarse ==
    \E t \in Threads :
        \/ CoarsePredCall(t)
        \/ CoarseEnter(t)
        \/ CoarseFind(t)
        \/ CoarseLock(t)
        \/ CoarseCheck(t)
        \/ ModifyCall(t)
        \/ ViewLock(t)
        \/ IncRead(t)
        \/ IncWrite(t)
        \/ ModifyDestroy(t)

SpecCoarse == InitFilled /\ [][NextCoarse]_vars

(* The slot whose payload thread t's predicate is about to read, if any.   *)
Evaluating(t) ==
    IF pc[t] \in {"pred_eval", "c_check"} \/ (pc[t] = "c_find" /\ inUse[iter[t]])
    THEN {iter[t]}
    ELSE {}

(* C14: in the lock-free and in the coarse-lock variant, a thread that     *)
(* evaluates the predicate on slot i's payload holds slot i's mutex, and   *)
(* no other thread holds a View on slot i or is writing its payload.       *)
C14_PredicateUnderSlotLock ==
    \A t \in Threads : \A i \in Evaluating(t) :
        /\ access[i]
        /\ ref[t] = i
        /\ ~WriterAt(t, i)

---------------------------------------------------------------------------
(* The coarse-lock variant (LOCK_FREE = 0) used by one thread: each call   *)
(* runs under the container mutex from the occupancy u (and payloads d)    *)
(* it finds, and what it returns and leaves is computed here.              *)

(* find_if_not(storage, &Element::inUse) from position i.  *)
RECURSIVE CoarseFindIfNot(_, _)
CoarseFindIfNot(u, i) ==
    IF i = End THEN End
    ELSE IF ~u[i] THEN i
    ELSE CoarseFindIfNot(u, i + 1)

(* allocate(): (View of slot k, true) and inUse = true, or (View {}, false). *)
CoarseAllocate(u) ==
    LET k == CoarseFindIfNot(u, 0)
    IN  IF k = End
        THEN [ret |-> "false", slot |-> Null, inUse |-> u]
        ELSE [ret |-> "true", slot |-> k, inUse |-> [u EXCEPT ![k] = TRUE]]

(* deallocate(idx): return std::exchange(e.ref->inUse, false);  *)
CoarseDeallocate(u, idx) ==
    IF ~InRange(idx)
    THEN [ret |-> "OutOfRange", inUse |-> u]
    ELSE [ret |-> IF u[idx] THEN "true" ELSE "false",
          inUse |-> [u EXCEPT ![idx] = FALSE]]

(* find_if(storage, e.inUse && pred(e.data)) from position i.  *)
RECURSIVE CoarseFindIf(_, _, _)
CoarseFindIf(u, d, i) ==
    IF i = End THEN End
    ELSE IF u[i] /\ prefix_pred(d[i]) THEN i
    ELSE CoarseFindIf(u, d, i + 1)

(* deallocate(pred): false at cend(), else the exchange on the slot found  *)
(* (its second pred test sees the payload the first one saw).              *)
CoarseDeallocPred(u, d) ==
    LET k == CoarseFindIf(u, d, 0)
    IN  IF k = End
        THEN [ret |-> "false", inUse |-> u]
        ELSE [ret |-> IF u[k] THEN "true" ELSE "false",
              inUse |-> [u EXCEPT ![k] = FALSE]]

(* The step in which the thread's lock-free call returns.  *)
AllocReturns == pc[Main] \in {"alloc_scan", "alloc_cas"} /\ pc'[Main] = "holding"

DeallocReturns ==
    \/ pc[Main] = "dealloc_cas" /\ pc'[Main] = "idle"
    \/ pc[Main] = "idle" /\ ret'[Main] = "OutOfRange" /\ calls' # calls

PredReturns == pc[Main] \in {"pred_eval", "pred_cas"} /\ pc'[Main] = "idle"

C15_Step ==
    /\ AllocReturns =>
          /\ ret'[Main] = CoarseAllocate(inUse).ret
          /\ ref'[Main] = CoarseAllocate(inUse).slot
          /\ inUse' = CoarseAllocate(inUse).inUse
    /\ DeallocReturns =>
          /\ ret'[Main] = CoarseDeallocate(inUse, iter'[Main]).ret
          /\ inUse' = CoarseDeallocate(inUse, iter'[Main]).inUse
    /\ PredReturns =>
          /\ ret'[Main] = CoarseDeallocPred(inUse, data).ret
          /\ inUse' = CoarseDeallocPred(inUse, data).inUse

(* C15: used by one thread, every allocate(), deallocate(idx) and          *)
(* deallocate(pred) call of the lock-free variant returns what the         *)
(* coarse-lock variant returns from the same pool state, and leaves the    *)
(* same slots occupied.                                                    *)
C15_VariantsAgree == [][C15_Step]_vars

Least(S) == CHOOSE x \in S : \A y \in S : x <= y

FreeSlots == Slots \ Occupied

C19_State ==
    pc[Main] = "holding" /\ ret[Main] = "true"
        => \A j \in Slots : j <= ref[Main] => inUse[j]

C19_Step ==
    /\ pc[Main] = "alloc_cas" =>
          /\ ret'[Main] = "true"
          /\ ref'[Main] = Least(FreeSlots)
          /\ inUse' = [inUse EXCEPT ![Least(FreeSlots)] = TRUE]
          /\ data' = data
    /\ pc[Main] \in {"alloc_scan", "alloc_lock"} => inUse' = inUse

(* C19: used by one thread, a successful allocate() claims the free slot   *)
(* of smallest index: the View it returns is bound to that slot, every     *)
(* slot below it is occupied, and no other slot changes occupancy.         *)
C19_SmallestFreeSlot == []C19_State /\ [][C19_Step]_vars

C19_Witness ==
    /\ pc[Main] = "holding"
    /\ ret[Main] = "true"
    /\ ref[Main] > 0
    /\ claims[ref[Main]] >= 2
    /\ \E j \in FreeSlots : j > ref[Main]

Matching == {i \in Occupied : prefix_pred(data[i])}

C20_Step ==
    /\ pc[Main] \in {"pred_lock", "pred_eval", "pred_cas"} =>
          /\ Cardinality({i \in Slots : inUse'[i] # inUse[i]}) <= 1
          /\ data' = data
    /\ PredReturns =>
          /\ Matching # {} =>
                /\ ret'[Main] = "true"
                /\ inUse' = [inUse EXCEPT ![Least(Matching)] = FALSE]
          /\ Matching = {} =>
                /\ ret'[Main] = "false"
                /\ inUse' = inUse

(* C20: used by one thread, a deallocate(pred) call changes the occupancy  *)
(* of at most one slot; it returns true and frees the occupied matching    *)
(* slot of smallest index when there is one, and it returns false with     *)
(* the pool unchanged only when no occupied slot matches.                  *)
C20_FirstMatchFreed == [][C20_Step]_vars

---------------------------------------------------------------------------
(* Scheduling of TEST(mt_vault, wild): a thread that can take a step of    *)
(* the call it is in, or destroy the View it holds, eventually does.       *)

Progress(t) ==
    \/ AllocScan(t)
    \/ AllocLock(t)
    \/ AllocCas(t)
    \/ ViewDestroy(t)
    \/ DeallocLock(t)
    \/ DeallocCas(t)
    \/ PredLock(t)
    \/ PredEval(t)
    \/ PredCas(t)
    \/ ViewLock(t)
    \/ IncWrite(t)

(* The threads of the wild test working on the first slot of a full pool:  *)
(* deallocate(0), view(0) with an increment, deallocate(prefix_pred),      *)
(* whose scan passes slot 0, and allocate(), which gets slot 0 once it     *)
(* has been freed.                                                         *)
LiveDeallocate(t) ==
    /\ calls < MaxCalls
    /\ DeallocateCall(t, 0)

LiveView(t) ==
    /\ calls < MaxCalls
    /\ ViewCall(t, 0)

NextLive ==
    \E t \in Threads :
        \/ WildAllocate(t)
        \/ AllocScan(t)
        \/ AllocLock(t)
        \/ AllocCas(t)
        \/ WildWrite(t)
        \/ ViewDestroy(t)
        \/ LiveDeallocate(t)
        \/ DeallocLock(t)
        \/ DeallocCas(t)
        \/ WildDeallocPred(t)
        \/ PredLock(t)
        \/ PredEval(t)
        \/ PredCas(t)
        \/ LiveView(t)
        \/ ViewLock(t)
        \/ IncRead(t)
        \/ IncWrite(t)

SpecFair == InitChurn /\ [][NextLive]_vars /\ \A t \in Threads : WF_vars(Progress(t))

(* The thread waits for a mutex another thread holds.  *)
Blocked(t) ==
    /\ pc[t] \in {"alloc_lock", "dealloc_lock", "pred_lock", "view_lock"}
    /\ ~CanLock(iter[t])

NoDeadlock ==
    (\E t \in Threads : pc[t] # "idle") => (\E t \in Threads : pc[t] # "idle" /\ ~Blocked(t))

InCall(t) ==
    pc[t] \in {"dealloc_lock", "dealloc_cas", "pred_lock", "pred_eval", "pred_cas",
               "view_lock"}

(* C16: threads that allocate, release by index and by predicate and take  *)
(* Views, each destroying its View before its next call, never reach a     *)
(* state in which every thread that is not between calls waits for a       *)
(* mutex; and every deallocate(idx), deallocate(pred) and view(idx) call   *)
(* that has started returns.                                               *)
C16_NoDeadlockCallsReturn ==
    /\ []NoDeadlock
    /\ \A t \in Threads : InCall(t) ~> (pc[t] \in {"idle", "holding"})

C16_Witness ==
    \E t, u \in Threads :
        /\ pc[t] = "view_lock"
        /\ Blocked(t)
        /\ pc[u] = "pred_eval"
        /\ ref[u] = iter[t]

(* C17 as the spec states it: releasing slot i does not depend on the      *)
(* Views on slot i, so a deallocate(i) call that has reached the slot is   *)
(* not held up by a View another thread holds on it, and the occupancy     *)
(* goes off while that View is in use.                                     *)
C17_ReleaseDespiteView ==
    \A t, u \in Threads :
        t # u /\ pc[t] = "dealloc_lock" /\ pc[u] \in {"holding", "inc_write"}
              /\ ref[u] = iter[t]
            => CanLock(iter[t])

C17_State ==
    \A t, u \in Threads : t # u /\ ref[t] # Null => ref[u] # ref[t]

C17_Step ==
    \A i \in Slots :
        /\ inUse[i] /\ ~inUse'[i] =>
              \E t \in Threads :
                  /\ pc[t] \in {"dealloc_cas", "pred_cas"}
                  /\ ref[t] = i
                  /\ access[i]
                  /\ \A u \in Threads \ {t} : ref[u] # i
        /\ data'[i] # data[i] => inUse'[i] /\ inUse[i]

(* C17, amended: a release turns slot i's occupancy off only in a step of  *)
(* the thread that holds slot i's mutex, so never while another thread     *)
(* holds a View on slot i; a payload is written only in a slot that is     *)
(* and stays occupied.                                                     *)
C17_ReleaseWaitsForView == []C17_State /\ [][C17_Step]_vars

C17_Witness ==
    \E t, u \in Threads :
        /\ pc[t] = "dealloc_lock"
        /\ pc[u] = "inc_write"
        /\ ref[u] = iter[t]
        /\ Blocked(t)

C18_State ==
    \A t \in Threads :
        /\ pc[t] = "holding" /\ ret[t] \in {"true", "modified"} =>
              Live(t) /\ DerefOutcomes(t) = {"ok"}
        /\ pc[t] = "inc_write" => Live(t)
        /\ ret[t] # "EmptyAccess"

C18_Step ==
    \A t \in Threads :
        pc[t] \in {"holding", "inc_write"} /\ Live(t) /\ ref'[t] = ref[t]
            => inUse'[ref[t]]

(* C18: a View returned by a successful allocate(), or seen live once,     *)
(* stays bound to an occupied slot for as long as it exists, whatever      *)
(* the other threads call; a dereference through it yields the payload,    *)
(* never EmptyAccess.                                                      *)
C18_LivenessStable == []C18_State /\ [][C18_Step]_vars

C18_Witness ==
    \E t, u \in Threads :
        /\ pc[t] = "holding"
        /\ ret[t] = "true"
        /\ prefix_pred(data[ref[t]])
        /\ pc[u] = "pred_lock"
        /\ iter[u] = ref[t]


---------------------------------------------------------------------------
(* TEST(mt_vault, wild), its first two groups of threads: allocate()       *)
(* calls of several threads run while another thread calls                 *)
(* deallocate(idx) on the same pool.  An allocate() call that fails        *)
(* although a slot was free throughout takes two allocating threads and a  *)
(* releasing one, so this scenario has one thread more than the others.    *)

RaceThreads == 1..(NumThreads + 1)

Releaser == NumThreads + 1

InitRace ==
    /\ inUse \in {f \in [Slots -> BOOLEAN] : Cardinality({i \in Slots : ~f[i]}) <= 1}
    /\ data = FilledData
    /\ access = [i \in Slots |-> FALSE]
    /\ pc = [t \in RaceThreads |-> "idle"]
    /\ iter = [t \in RaceThreads |-> 0]
    /\ ref = [t \in RaceThreads |-> Null]
    /\ ret = [t \in RaceThreads |-> "none"]
    /\ n = [t \in RaceThreads |-> 0]
    /\ calls = 0
    /\ tmp = [t \in RaceThreads |-> 0]
    /\ seen = [t \in RaceThreads |-> <<>>]
    /\ claims = [i \in Slots |-> 0]
    /\ frees = [i \in Slots |-> 0]
    /\ fails = 0
    /\ incs = 0
    /\ start = [inUse |-> inUse, data |-> data]
    /\ during = [t \in RaceThreads |-> NoCall]

RaceAllocate(t) ==
    /\ t # Releaser
    /\ calls < MaxCalls + 1
    /\ AllocateCall(t)

RaceDeallocate(t) ==
    /\ t = Releaser
    /\ calls < MaxCalls + 1
    /\ \E idx \in Slots : DeallocateCall(t, idx)

NextRace ==
    \E t \in RaceThreads :
        \/ RaceAllocate(t)
        \/ AllocScan(t)
        \/ AllocLock(t)
        \/ AllocCas(t)
        \/ ViewDestroy(t)
        \/ RaceDeallocate(t)
        \/ DeallocLock(t)
        \/ DeallocCas(t)

SpecRace == InitRace /\ [][NextRace]_vars

AllocateFailed(t) == pc[t] = "holding" /\ ret[t] = "false"

(* C21 as stated: an allocate() call that has returned success = false     *)
(* had an instant between its invocation and its return at which every     *)
(* slot of the pool was occupied.                                          *)
C21_FailureMeansFull ==
    \A t \in DOMAIN pc : AllocateFailed(t) => during[t].full

(* C21, amended: an allocate() call that has returned success = false had  *)
(* an instant between its invocation and its return at which every slot    *)
(* of the pool was occupied, unless a deallocate call freed a slot in      *)
(* between (the scan reads the slots one after another, so a slot freed    *)
(* behind it and a slot claimed ahead of it make it fail on a pool that    *)
(* was never full).                                                        *)
C21_FailureMeansFullOrFreed ==
    \A t \in DOMAIN pc :
        AllocateFailed(t) => during[t].full \/ during[t].freed

(* An allocate() call has failed on a pool that always had a free slot.  *)
C21_Witness ==
    \E t \in DOMAIN pc :
        /\ AllocateFailed(t)
        /\ ~during[t].full
        /\ during[t].freed
        /\ \E i \in Slots : ~inUse[i]


---------------------------------------------------------------------------
(* Threads of TEST(mt_vault, wild) contending for the first slot of a pool  *)
(* whose other slots are occupied: allocate() calls whose compare-exchange  *)
(* loses restart their scan, deallocate(0) calls free the slot again.       *)
(* Scheduling as above.                                                     *)

InitRetry ==
    /\ inUse = [i \in Slots |-> i # 0]
    /\ data = FilledData
    /\ ThreadInit

RetryAllocate(t) ==
    /\ calls < MaxCalls + 1
    /\ AllocateCall(t)

RetryDeallocate(t) ==
    /\ calls < MaxCalls + 1
    /\ DeallocateCall(t, 0)

NextRetry ==
    \E t \in Threads :
        \/ RetryAllocate(t)
        \/ AllocScan(t)
        \/ AllocLock(t)
        \/ AllocCas(t)
        \/ ViewDestroy(t)
        \/ RetryDeallocate(t)
        \/ DeallocLock(t)
        \/ DeallocCas(t)

SpecRetry == InitRetry /\ [][NextRetry]_vars /\ \A t \in Threads : WF_vars(Progress(t))

(* Thread t's compare-exchange in allocate() fails and its scan restarts.  *)
Restarts(t) == pc[t] = "alloc_cas" /\ pc'[t] = "alloc_scan"

C22_Step ==
    \A t \in Threads :
        Restarts(t) =>
            /\ inUse[ref[t]]
            /\ claims[ref[t]] > 0
            /\ during[t].others > during[t].restarts
            /\ iter'[t] = 0
            /\ inUse' = inUse

(* C22: the compare-exchange of allocate() fails only on a slot that is    *)
(* occupied because another thread's allocate() claimed it after this      *)
(* call began, and the scan then restarts from index 0; the restarts of    *)
(* one allocate() call never outnumber the allocate() calls of other       *)
(* threads that succeeded during it; and, the other threads making         *)
(* finitely many calls, every allocate() call returns.                     *)
C22_RestartsBounded ==
    /\ [](\A t \in Threads : during[t].restarts <= during[t].others)
    /\ [][C22_Step]_vars
    /\ \A t \in Threads : InAllocate(t) ~> ~InAllocate(t)

(* An allocate() call has returned a slot after its scan restarted.  *)
C22_Witness ==
    \E t \in Threads :
        /\ pc[t] = "holding"
        /\ ret[t] = "true"
        /\ during[t].restarts >= 1
        /\ during[t].restarts = during[t].others

=============================================================================
